---- MODULE Spec2Model ----
(***************************************************************************)
(* A model of the coordination core of dice4.py (class MonopolyBot):       *)
(*   - the !go rendezvous (handle_go_command, on_privmsg, handle_stopgo,   *)
(*     _go_timeout, _go_complete, _reset_go_state),                        *)
(*   - the ImageMagick update queue (on_pubmsg, process_queue),            *)
(*   - the reconnect loop (on_disconnect, _reconnect_loop).                *)
(*                                                                         *)
(* Threads.  Thread 0 is the IRC event loop: it runs one handler at a      *)
(* time.  Every threading.Timer started by handle_go_command is a thread   *)
(* of its own (timer i is the one created by the i-th accepted !go).  The  *)
(* queue worker and every reconnect loop are threads too.  A step of the   *)
(* model is one statement of the source: the position of each thread is    *)
(* the line it is about to execute ("L256" is line 256 of dice4.py).       *)
(***************************************************************************)
EXTENDS Integers, Sequences, FiniteSets, TLC

\* ------------------------------------------------------------- bounds
\* The number of !go commands that win the lock in one run (each creates
\* at most one timer thread).
MaxSessions == 2
\* The same count in the specification without private messages.
MaxStarts == 3
\* The number of tasks put on mogrify_queue in one run.
MaxTasks == 3
\* The number of reconnect threads started in one run.
MaxSeq == 2
\* The attempt counter of a reconnect loop is followed up to this value.
MaxAttempt == 7

\* --------------------------------------------------- program constants
DefaultTimeout == 60
MaxNumber == 7
base_wait == 60
MaxWait == 300

None == "None"
channel == "##rento"
Main == 0
Timers == 1..MaxStarts
Threads == {Main} \cup Timers

go_input_users == <<"player1bot", "player2bot">>
InputUserSet == {go_input_users[i] : i \in 1..Len(go_input_users)}

\* ------------------------------------------------------------- inputs
\* The tag matched by ([1-4]) in "!go([1-4])(?:\s+(\d+))?" and its optional
\* second group (None when absent).
GoCommands == {<<"1", None>>, <<"2", "5">>}
\* Who sends a private message.
Senders == {"player1bot", "player2bot", "player3bot"}
\* The stripped, lower-cased text of a private message.  "sup2" stands for
\* the one-character text U+00B2 (SUPERSCRIPT TWO).
Texts == {"3", "7", "8", "x", "sup2"}

VARIABLES
    \* --- rendezvous (self.go_*)
    go_lock,        \* threading.Lock: TRUE when held
    go_active,      \* None or the tag of the running !go
    go_timeout,
    go_numbers,     \* dict: sender -> number
    go_timer,       \* None (0) or the id of a Timer object
    pc,             \* position of the event loop (0) and of every timer thread
    fr,             \* the local variables of each thread
    \* --- history variables (not program state)
    cur,            \* number of !go commands that won the lock
    accepted,       \* last number stored by on_privmsg per sender, this session
    terminal,       \* per session: terminal notices sent on its behalf
    \* --- update queue
    mogrify_queue,
    wpc, wtask,     \* the worker thread
    map_file,       \* content of map.webp
    temp_file,      \* content of map_temp.webp, or None
    qhist,          \* history of the queue: counters and logs
    \* --- reconnect
    reconnect_active,
    connected,      \* self.connection.is_connected()
    rpc, attempt, wait_time,   \* the reconnect threads
    rhist           \* history of the reconnect loops

govars == <<go_lock, go_active, go_timeout, go_numbers, go_timer, pc, fr,
            cur, accepted, terminal>>
qvars == <<mogrify_queue, wpc, wtask, map_file, temp_file, qhist>>
rvars == <<reconnect_active, rpc, attempt, wait_time, rhist>>
vars == <<govars, qvars, rvars, connected>>


\* ------------------------------------------------------------ helpers
EmptyDict == [u \in {} |-> 0]

\* dict[key] = value
DictPut(d, key, value) == (key :> value) @@ d

\* dict.get(key, default)
DictGet(d, key, default) == IF key \in DOMAIN d THEN d[key] ELSE default

\* str.isdigit(): true of every text made of digit characters, and
\* SUPERSCRIPT TWO is a digit character (it is not a decimal one).
isdigit(t) == t \in {"3", "5", "7", "8", "sup2"}

\* int(t) returns for the decimal texts and raises ValueError otherwise.
IntParses(t) == t \in {"3", "5", "7", "8"}
IntOf(t) == CASE t = "3" -> 3 [] t = "5" -> 5 [] t = "7" -> 7 [] t = "8" -> 8
              [] OTHER -> 0

\* line 248: int(timeout_str) if timeout_str else 60
ParseTimeout(ts) == IF ts = None THEN DefaultTimeout ELSE IntOf(ts)

\* line 200: 0 <= num <= 7
InRange(num) == 0 <= num /\ num <= MaxNumber

\* The local variables of a thread; sess is a history field: the session
\* (the count of accepted !go commands) the thread acts for.
NoFrame == [go_num |-> None, timeout |-> 0, sender |-> None, text |-> None,
            num |-> 0, idx |-> 0, nums |-> <<>>, missing |-> <<>>,
            sess |-> 0]

\* connection.privmsg(to, text): the text is kept as its parts.
Msg(kind, to, tag, nums, users) ==
    [kind |-> kind, to |-> to, tag |-> tag, nums |-> nums, users |-> users]

\* A handler of the event loop returns to the loop; the function of a timer
\* thread returns and the thread ends.
Return(th) == IF th = Main THEN "idle" ELSE "done"

\* An exception that leaves a handler ends the event loop; one that leaves
\* the function of a timer ends the timer thread.
Raise(th) == IF th = Main THEN "crashed" ELSE "raised"

\* Timer.cancel(): sets the timer's finished event.  A timer that has not
\* fired yet never calls its function; one whose function is running or has
\* returned is not affected.
TimerCancel(p, i) ==
    IF p[i] \in {"created", "armed"} THEN [p EXCEPT ![i] = "cancelled"] ELSE p

\* Timer.start(): the thread waits for the interval unless cancelled.
TimerStart(p, i) ==
    IF p[i] = "created" THEN [p EXCEPT ![i] = "armed"] ELSE p

Goto(th, line) == pc' = [pc EXCEPT ![th] = line]

NoteTerminal(th) ==
    terminal' = [terminal EXCEPT ![fr[th].sess] = @ + 1]

\* --------------------------------------------------- handle_go_command

\* lines 244-252: the command is parsed and the lock is tried without
\* waiting.
handle_go_command(go_num, ts) ==
    /\ pc[Main] = "idle"
    /\ IF go_lock
       THEN /\ fr' = [fr EXCEPT ![Main] = [NoFrame EXCEPT !.go_num = go_num]]
            /\ Goto(Main, "L253")
            /\ UNCHANGED <<go_lock, cur, accepted>>
       ELSE /\ go_lock' = TRUE
            /\ cur' = cur + 1
            /\ accepted' = EmptyDict
            /\ fr' = [fr EXCEPT ![Main] = [NoFrame EXCEPT !.go_num = go_num,
                                    !.timeout = ParseTimeout(ts), !.sess = cur + 1]]
            /\ Goto(Main, "L256")
    /\ UNCHANGED <<go_active, go_timeout, go_numbers, go_timer, terminal,
                   qvars, rvars, connected>>

\* line 253: "cannot start !go<n>, another go command is active."
msg_L253 == Msg("busy", channel, fr[Main].go_num, <<>>, <<>>)

go_L253 ==
    /\ pc[Main] = "L253"
    /\ Goto(Main, Return(Main))
    /\ fr' = [fr EXCEPT ![Main] = NoFrame]
    /\ UNCHANGED <<go_lock, go_active, go_timeout, go_numbers, go_timer,
                   cur, accepted, terminal, qvars, rvars, connected>>

\* lines 256-257.  self.go_timeout is read and written by this handler
\* alone, so the two assignments are one step.
go_L256 ==
    /\ pc[Main] = "L256"
    /\ go_active' = fr[Main].go_num
    /\ go_timeout' = fr[Main].timeout
    /\ Goto(Main, "L258")
    /\ UNCHANGED <<go_lock, go_numbers, go_timer, fr, cur, accepted,
                   terminal, qvars, rvars, connected>>

go_L258 ==
    /\ pc[Main] = "L258"
    /\ go_numbers' = EmptyDict
    /\ Goto(Main, "L259")
    /\ UNCHANGED <<go_lock, go_active, go_timeout, go_timer, fr, cur,
                   accepted, terminal, qvars, rvars, connected>>

\* line 259: "!go<n> started. Waiting for numbers from ... Timeout: <t>s"
msg_L259 == Msg("started", channel, fr[Main].go_num, <<go_timeout>>,
                go_input_users)

go_L259 ==
    /\ pc[Main] = "L259"
    /\ Goto(Main, "L261")
    /\ UNCHANGED <<go_lock, go_active, go_timeout, go_numbers, go_timer,
                   fr, cur, accepted, terminal, qvars, rvars, connected>>

go_L261 ==
    /\ pc[Main] = "L261"
    /\ Goto(Main, IF go_timer # 0 THEN "L262" ELSE "L263")
    /\ UNCHANGED <<go_lock, go_active, go_timeout, go_numbers, go_timer,
                   fr, cur, accepted, terminal, qvars, rvars, connected>>

\* line 262 reads self.go_timer again: None has no cancel().
go_L262 ==
    /\ pc[Main] = "L262"
    /\ IF go_timer = 0
       THEN /\ Goto(Main, Raise(Main))
            /\ fr' = [fr EXCEPT ![Main] = NoFrame]
       ELSE /\ pc' = [TimerCancel(pc, go_timer) EXCEPT ![Main] = "L263"]
            /\ UNCHANGED fr
    /\ UNCHANGED <<go_lock, go_active, go_timeout, go_numbers, go_timer,
                   cur, accepted, terminal, qvars, rvars, connected>>

\* line 263: a new Timer object, not started yet.
go_L263 ==
    /\ pc[Main] = "L263"
    /\ go_timer' = fr[Main].sess
    /\ pc' = [pc EXCEPT ![Main] = "L264", ![fr[Main].sess] = "created"]
    /\ UNCHANGED <<go_lock, go_active, go_timeout, go_numbers, fr, cur,
                   accepted, terminal, qvars, rvars, connected>>

\* line 264 reads self.go_timer again.
go_L264 ==
    /\ pc[Main] = "L264"
    /\ IF go_timer = 0
       THEN Goto(Main, Raise(Main))
       ELSE pc' = [TimerStart(pc, go_timer) EXCEPT ![Main] = Return(Main)]
    /\ fr' = [fr EXCEPT ![Main] = NoFrame]
    /\ UNCHANGED <<go_lock, go_active, go_timeout, go_numbers, go_timer,
                   cur, accepted, terminal, qvars, rvars, connected>>

\* ---------------------------------------------------------- on_privmsg

\* lines 194-197: a private message; nothing happens unless a !go is
\* active and the sender is one of go_input_users.
on_privmsg(sender, text) ==
    /\ pc[Main] = "idle"
    /\ IF go_active # None /\ sender \in InputUserSet
       THEN /\ fr' = [fr EXCEPT ![Main] = [NoFrame EXCEPT !.sender = sender,
                                    !.text = text, !.sess = cur]]
            /\ Goto(Main, "L198")
       ELSE /\ Goto(Main, "L197")
            /\ UNCHANGED fr
    /\ UNCHANGED <<go_lock, go_active, go_timeout, go_numbers, go_timer,
                   cur, accepted, terminal, qvars, rvars, connected>>

\* line 197 false: there is no else branch, the handler returns and nothing
\* is sent.
privmsg_L197 ==
    /\ pc[Main] = "L197"
    /\ Goto(Main, Return(Main))
    /\ UNCHANGED <<go_lock, go_active, go_timeout, go_numbers, go_timer,
                   fr, cur, accepted, terminal, qvars, rvars, connected>>

\* lines 198-200: the text is tested with isdigit(), converted with int()
\* and compared with the range.
privmsg_L198 ==
    /\ pc[Main] = "L198"
    /\ LET text == fr[Main].text
       IN  IF ~isdigit(text)
           THEN /\ Goto(Main, "L208")
                /\ UNCHANGED fr
           ELSE IF ~IntParses(text)
           THEN /\ Goto(Main, Raise(Main))
                /\ fr' = [fr EXCEPT ![Main] = NoFrame]
           ELSE IF ~InRange(IntOf(text))
           THEN /\ Goto(Main, "L206")
                /\ UNCHANGED fr
           ELSE /\ fr' = [fr EXCEPT ![Main].num = IntOf(text)]
                /\ Goto(Main, "L201")
    /\ UNCHANGED <<go_lock, go_active, go_timeout, go_numbers, go_timer,
                   cur, accepted, terminal, qvars, rvars, connected>>

\* line 206: "number must be 0-7."
msg_L206 == Msg("range", fr[Main].sender, None, <<0, MaxNumber>>, <<>>)

privmsg_L206 ==
    /\ pc[Main] = "L206"
    /\ Goto(Main, Return(Main))
    /\ fr' = [fr EXCEPT ![Main] = NoFrame]
    /\ UNCHANGED <<go_lock, go_active, go_timeout, go_numbers, go_timer,
                   cur, accepted, terminal, qvars, rvars, connected>>

\* line 208: "send a number 0-7."
msg_L208 == Msg("nan", fr[Main].sender, None, <<0, MaxNumber>>, <<>>)

privmsg_L208 ==
    /\ pc[Main] = "L208"
    /\ Goto(Main, Return(Main))
    /\ fr' = [fr EXCEPT ![Main] = NoFrame]
    /\ UNCHANGED <<go_lock, go_active, go_timeout, go_numbers, go_timer,
                   cur, accepted, terminal, qvars, rvars, connected>>

privmsg_L201 ==
    /\ pc[Main] = "L201"
    /\ go_numbers' = DictPut(go_numbers, fr[Main].sender, fr[Main].num)
    /\ accepted' = DictPut(accepted, fr[Main].sender, fr[Main].num)
    /\ Goto(Main, "L202")
    /\ UNCHANGED <<go_lock, go_active, go_timeout, go_timer, fr, cur,
                   terminal, qvars, rvars, connected>>

\* line 202: "number <num> received for !go<self.go_active>."
msg_L202 == Msg("ack", fr[Main].sender, go_active, <<fr[Main].num>>, <<>>)

privmsg_L202 ==
    /\ pc[Main] = "L202"
    /\ Goto(Main, "L203")
    /\ UNCHANGED <<go_lock, go_active, go_timeout, go_numbers, go_timer,
                   fr, cur, accepted, terminal, qvars, rvars, connected>>

privmsg_L203 ==
    /\ pc[Main] = "L203"
    /\ IF Cardinality(DOMAIN go_numbers) = Len(go_input_users)
       THEN /\ Goto(Main, "L291")
            /\ UNCHANGED fr
       ELSE /\ Goto(Main, Return(Main))
            /\ fr' = [fr EXCEPT ![Main] = NoFrame]
    /\ UNCHANGED <<go_lock, go_active, go_timeout, go_numbers, go_timer,
                   cur, accepted, terminal, qvars, rvars, connected>>

\* -------------------------------------------------------- _go_complete

\* line 291, one element of the comprehension per step.
complete_L291 ==
    /\ pc[Main] = "L291"
    /\ LET k == fr[Main].idx + 1
           v == DictGet(go_numbers, go_input_users[k], 0)
       IN  /\ fr' = [fr EXCEPT ![Main].idx = k,
                               ![Main].nums = Append(@, v)]
           /\ Goto(Main, IF k = Len(go_input_users) THEN "L292" ELSE "L291")
    /\ UNCHANGED <<go_lock, go_active, go_timeout, go_numbers, go_timer,
                   cur, accepted, terminal, qvars, rvars, connected>>

\* lines 292-293: "go<self.go_active> resulted in <n1> + <n2>"
msg_L292 == Msg("result", channel, go_active, fr[Main].nums, <<>>)

complete_L292 ==
    /\ pc[Main] = "L292"
    /\ NoteTerminal(Main)
    /\ Goto(Main, "L298")
    /\ UNCHANGED <<go_lock, go_active, go_timeout, go_numbers, go_timer,
                   fr, cur, accepted, qvars, rvars, connected>>

\* ------------------------------------------------------- handle_stopgo

\* lines 266-267
handle_stopgo ==
    /\ pc[Main] = "idle"
    /\ IF go_active = None
       THEN /\ Goto(Main, "L268")
            /\ UNCHANGED fr
       ELSE /\ fr' = [fr EXCEPT ![Main] = [NoFrame EXCEPT !.sess = cur]]
            /\ Goto(Main, "L271")
    /\ UNCHANGED <<go_lock, go_active, go_timeout, go_numbers, go_timer,
                   cur, accepted, terminal, qvars, rvars, connected>>

\* line 268: "No active !go command to stop."
msg_L268 == Msg("nostop", channel, None, <<>>, <<>>)

stopgo_L268 ==
    /\ pc[Main] = "L268"
    /\ Goto(Main, Return(Main))
    /\ UNCHANGED <<go_lock, go_active, go_timeout, go_numbers, go_timer,
                   fr, cur, accepted, terminal, qvars, rvars, connected>>

stopgo_L271 ==
    /\ pc[Main] = "L271"
    /\ Goto(Main, IF go_timer # 0 THEN "L272" ELSE "L275")
    /\ UNCHANGED <<go_lock, go_active, go_timeout, go_numbers, go_timer,
                   fr, cur, accepted, terminal, qvars, rvars, connected>>

\* line 272 reads self.go_timer again.
stopgo_L272 ==
    /\ pc[Main] = "L272"
    /\ IF go_timer = 0
       THEN /\ Goto(Main, Raise(Main))
            /\ fr' = [fr EXCEPT ![Main] = NoFrame]
       ELSE /\ pc' = [TimerCancel(pc, go_timer) EXCEPT ![Main] = "L273"]
            /\ UNCHANGED fr
    /\ UNCHANGED <<go_lock, go_active, go_timeout, go_numbers, go_timer,
                   cur, accepted, terminal, qvars, rvars, connected>>

stopgo_L273 ==
    /\ pc[Main] = "L273"
    /\ go_timer' = 0
    /\ Goto(Main, "L275")
    /\ UNCHANGED <<go_lock, go_active, go_timeout, go_numbers, fr, cur,
                   accepted, terminal, qvars, rvars, connected>>

\* line 275: "!go<self.go_active> stopped manually."
msg_L275 == Msg("stopped", channel, go_active, <<>>, <<>>)

stopgo_L275 ==
    /\ pc[Main] = "L275"
    /\ NoteTerminal(Main)
    /\ Goto(Main, "L298")
    /\ UNCHANGED <<go_lock, go_active, go_timeout, go_numbers, go_timer,
                   fr, cur, accepted, qvars, rvars, connected>>

\* --------------------------------------------------------- _go_timeout

\* Timer.run (lines 263-264 start it): the interval has passed and the
\* timer was not cancelled, so _go_timeout is called.  The frame notes, in
\* go_num, the session marker as it is when the deadline fires.
timer_fire(i) ==
    /\ pc[i] = "armed"
    /\ fr' = [fr EXCEPT ![i] = [NoFrame EXCEPT !.sess = i,
                                               !.go_num = go_active]]
    /\ Goto(i, "L280")
    /\ UNCHANGED <<go_lock, go_active, go_timeout, go_numbers, go_timer,
                   cur, accepted, terminal, qvars, rvars, connected>>

\* line 280, one element of the comprehension per step.
timeout_L280(i) ==
    /\ pc[i] = "L280"
    /\ LET k == fr[i].idx + 1
           u == go_input_users[k]
       IN  /\ fr' = [fr EXCEPT ![i].idx = k,
                               ![i].missing = IF u \notin DOMAIN go_numbers
                                              THEN Append(@, u) ELSE @]
           /\ Goto(i, IF k = Len(go_input_users) THEN "L282" ELSE "L280")
    /\ UNCHANGED <<go_lock, go_active, go_timeout, go_numbers, go_timer,
                   cur, accepted, terminal, qvars, rvars, connected>>

\* lines 281-285: "!go<self.go_active> timed out. Missing numbers from: ..."
\* (line 282), or "!go<self.go_active> timed out." when nothing is missing
\* (line 284), sent at line 285; `missing` and `msg` are not used again.
msg_L282(i) == Msg("timeout", channel, go_active, <<>>, fr[i].missing)

timeout_L282(i) ==
    /\ pc[i] = "L282"
    /\ NoteTerminal(i)
    /\ fr' = [fr EXCEPT ![i] = [NoFrame EXCEPT !.sess = i]]
    /\ Goto(i, "L298")
    /\ UNCHANGED <<go_lock, go_active, go_timeout, go_numbers, go_timer,
                   cur, accepted, qvars, rvars, connected>>

\* ----------------------------------------------------- _reset_go_state
\* Run by the event loop (from handle_stopgo and _go_complete) and by a
\* timer thread (from _go_timeout).

reset_L298(th) ==
    /\ pc[th] = "L298"
    /\ go_active' = None
    /\ Goto(th, "L299")
    /\ UNCHANGED <<go_lock, go_timeout, go_numbers, go_timer, fr, cur,
                   accepted, terminal, qvars, rvars, connected>>

reset_L299(th) ==
    /\ pc[th] = "L299"
    /\ go_numbers' = EmptyDict
    /\ Goto(th, "L300")
    /\ UNCHANGED <<go_lock, go_active, go_timeout, go_timer, fr, cur,
                   accepted, terminal, qvars, rvars, connected>>

reset_L300(th) ==
    /\ pc[th] = "L300"
    /\ Goto(th, IF go_timer # 0 THEN "L301" ELSE "L303")
    /\ UNCHANGED <<go_lock, go_active, go_timeout, go_numbers, go_timer,
                   fr, cur, accepted, terminal, qvars, rvars, connected>>

\* line 301 reads self.go_timer again.
reset_L301(th) ==
    /\ pc[th] = "L301"
    /\ IF go_timer = 0
       THEN /\ Goto(th, Raise(th))
            /\ fr' = [fr EXCEPT ![th] = NoFrame]
       ELSE /\ pc' = [TimerCancel(pc, go_timer) EXCEPT ![th] = "L302"]
            /\ UNCHANGED fr
    /\ UNCHANGED <<go_lock, go_active, go_timeout, go_numbers, go_timer,
                   cur, accepted, terminal, qvars, rvars, connected>>

reset_L302(th) ==
    /\ pc[th] = "L302"
    /\ go_timer' = 0
    /\ Goto(th, "L303")
    /\ UNCHANGED <<go_lock, go_active, go_timeout, go_numbers, fr, cur,
                   accepted, terminal, qvars, rvars, connected>>

reset_L303(th) ==
    /\ pc[th] = "L303"
    /\ IF go_lock
       THEN /\ Goto(th, "L304")
            /\ UNCHANGED fr
       ELSE /\ Goto(th, Return(th))
            /\ fr' = [fr EXCEPT ![th] = NoFrame]
    /\ UNCHANGED <<go_lock, go_active, go_timeout, go_numbers, go_timer,
                   cur, accepted, terminal, qvars, rvars, connected>>

\* line 304: release() of a lock that is not held raises RuntimeError.
reset_L304(th) ==
    /\ pc[th] = "L304"
    /\ IF go_lock
       THEN /\ go_lock' = FALSE
            /\ Goto(th, Return(th))
       ELSE /\ Goto(th, Raise(th))
            /\ UNCHANGED go_lock
    /\ fr' = [fr EXCEPT ![th] = NoFrame]
    /\ UNCHANGED <<go_active, go_timeout, go_numbers, go_timer, cur,
                   accepted, terminal, qvars, rvars, connected>>

\* =========================================================== update queue
\* A task is the tuple put on mogrify_queue: (coord, color), or
\* ("REPLACE_MAP", path).  id is a history field: the position of the task
\* in the order of the put() calls; gen, of a replace task, is the copy of
\* cb2.webp made for it.
REPLACE_MAP == "REPLACE_MAP"
temp_path == "map_temp.webp"

\* lines 13-44, two of the thirty entries.
coordinates == (1 :> "1225,1140 1235,1150") @@ (3 :> "990,1140 1000,1150")

\* lines 47-48, the entries of p1 and p2.
unmortgaged_colors == ("p1" :> "red") @@ ("p2" :> "blue")
mortgaged_colors == ("p1" :> "black") @@ ("p2" :> "grey")

\* The words of an update command: "<first_word> <player> <x> <number>".
FirstWords == {"unmortgaged", "mortgaged", "sold"}
Players == {"p1", "p9"}
Numbers == {1, 2}

\* lines 187-190
ColorOf(first_word, player) ==
    IF first_word \in {"auction-folded", "unmortgaged"}
    THEN DictGet(unmortgaged_colors, player, "red")
    ELSE DictGet(mortgaged_colors, player, "red")

\* A file: which copy of the board it is (0: the map.webp the bot started
\* with, n: the n-th copy of cb2.webp) and the circles drawn on it, each
\* named by the task that drew it.
File(gen, marks) == [gen |-> gen, marks |-> marks]

\* No file of that name.
NoFile == File(-1, {})

\* No task in hand.
NoTask == [coord |-> None, color |-> None, id |-> 0, gen |-> 0]

\* A put() at the front of the queue (a stack): the order queue.Queue does
\* not have.
QueuePut_lifo(q, task) == <<task>> \o q

\* queue.Queue.put: at the back.
QueuePut(q, task) == Append(q, task)

\* queue.Queue.get: the task at the front.
QueueFront(q) == Head(q)
QueueRest(q) == Tail(q)

\* ---------------------------------------------- on_pubmsg: !freshmap

\* lines 150-153: shutil.copyfile("cb2.webp", "map_temp.webp") writes the
\* temporary file, or raises when cb2.webp cannot be read.
freshmap_L153(copied) ==
    /\ pc[Main] = "idle"
    /\ IF copied
       THEN /\ temp_file' = File(qhist.copies + 1, {})
            /\ qhist' = [qhist EXCEPT !.copies = @ + 1]
            /\ Goto(Main, "L154")
       ELSE /\ Goto(Main, "L157")
            /\ UNCHANGED <<temp_file, qhist>>
    /\ UNCHANGED <<go_lock, go_active, go_timeout, go_numbers, go_timer,
                   fr, cur, accepted, terminal, mogrify_queue, wpc, wtask,
                   map_file, rvars, connected>>

\* line 154
freshmap_L154 ==
    /\ pc[Main] = "L154"
    /\ mogrify_queue' = QueuePut(mogrify_queue,
            [coord |-> REPLACE_MAP, color |-> temp_path, id |-> qhist.n + 1,
             gen |-> qhist.copies])
    /\ qhist' = [qhist EXCEPT !.n = @ + 1]
    /\ Goto(Main, "L155")
    /\ UNCHANGED <<go_lock, go_active, go_timeout, go_numbers, go_timer,
                   fr, cur, accepted, terminal, wpc, wtask, map_file,
                   temp_file, rvars, connected>>

\* line 155: "Fresh map queued from cb2.webp."
freshmap_L155 ==
    /\ pc[Main] = "L155"
    /\ Goto(Main, Return(Main))
    /\ UNCHANGED <<go_lock, go_active, go_timeout, go_numbers, go_timer,
                   fr, cur, accepted, terminal, qvars, rvars, connected>>

\* line 157: "Error queuing fresh map: ..."
freshmap_L157 ==
    /\ pc[Main] = "L157"
    /\ Goto(Main, Return(Main))
    /\ UNCHANGED <<go_lock, go_active, go_timeout, go_numbers, go_timer,
                   fr, cur, accepted, terminal, qvars, rvars, connected>>

\* ---------------------------------------- on_pubmsg: an update command

\* lines 169-192: the command is dropped unless its first word is one of
\* the three and its number is a key of coordinates.
on_pubmsg_update(first_word, player, number) ==
    /\ pc[Main] = "idle"
    /\ IF /\ first_word \in {"auction-folded", "unmortgaged", "mortgaged"}
          /\ number \in DOMAIN coordinates
       THEN /\ mogrify_queue' = QueuePut(mogrify_queue,
                    [coord |-> coordinates[number],
                     color |-> ColorOf(first_word, player),
                     id |-> qhist.n + 1, gen |-> 0])
            /\ qhist' = [qhist EXCEPT !.n = @ + 1]
       ELSE UNCHANGED <<mogrify_queue, qhist>>
    /\ UNCHANGED <<govars, wpc, wtask, map_file, temp_file, rvars,
                   connected>>

\* ------------------------------------------------------- process_queue

\* line 313: get() waits until the queue holds a task.
process_L313 ==
    /\ wpc = "L313"
    /\ mogrify_queue # <<>>
    /\ wtask' = QueueFront(mogrify_queue)
    /\ mogrify_queue' = QueueRest(mogrify_queue)
    /\ qhist' = [qhist EXCEPT !.taken = Append(@, QueueFront(mogrify_queue).id)]
    /\ wpc' = "L315"
    /\ UNCHANGED <<govars, map_file, temp_file, rvars, connected>>

\* lines 315-316: shutil.move("map_temp.webp", "map.webp") renames the
\* temporary file over the map; it raises when there is no such file.
process_L316 ==
    /\ wpc = "L315"
    /\ wtask.coord = REPLACE_MAP
    /\ IF temp_file # NoFile
       THEN /\ map_file' = temp_file
            /\ temp_file' = NoFile
            /\ wpc' = "L328"
            /\ UNCHANGED qhist
       ELSE /\ wpc' = "L326"
            /\ qhist' = [qhist EXCEPT !.failed = @ \cup {wtask.id}]
            /\ UNCHANGED <<map_file, temp_file>>
    /\ UNCHANGED <<govars, mogrify_queue, wtask, rvars, connected>>

\* lines 317-321: subprocess.run(..., shell=True) without check=True
\* returns whatever the exit status of mogrify is; it raises only when the
\* shell cannot be started.
process_L318(outcome) ==
    /\ wpc = "L315"
    /\ wtask.coord # REPLACE_MAP
    /\ map_file' = IF outcome = "drawn"
                   THEN [map_file EXCEPT !.marks = @ \cup {wtask.id}]
                   ELSE map_file
    /\ qhist' = IF outcome = "drawn" THEN qhist
                ELSE [qhist EXCEPT !.failed = @ \cup {wtask.id}]
    /\ wpc' = IF outcome = "oserror" THEN "L326" ELSE "L323"
    /\ UNCHANGED <<govars, mogrify_queue, wtask, temp_file, rvars,
                   connected>>

\* line 323
process_L323 ==
    /\ wpc = "L323"
    /\ wpc' = IF connected THEN "L324" ELSE "L328"
    /\ UNCHANGED <<govars, mogrify_queue, wtask, map_file, temp_file,
                   qhist, rvars, connected>>

\* line 324: privmsg("rentobot", "!up") raises when the connection has
\* been lost since line 323.
process_L324 ==
    /\ wpc = "L324"
    /\ IF connected
       THEN /\ qhist' = [qhist EXCEPT !.notified = Append(@, wtask.id)]
            /\ wpc' = "L328"
       ELSE /\ wpc' = "L326"
            /\ UNCHANGED qhist
    /\ UNCHANGED <<govars, mogrify_queue, wtask, map_file, temp_file,
                   rvars, connected>>

\* lines 325-326: "Error processing ImageMagick queue: ..."
process_L326 ==
    /\ wpc = "L326"
    /\ qhist' = [qhist EXCEPT !.logged = @ \cup {wtask.id}]
    /\ wpc' = "L328"
    /\ UNCHANGED <<govars, mogrify_queue, wtask, map_file, temp_file,
                   rvars, connected>>

\* lines 327-328: task_done(), and the loop goes back to get().
process_L328 ==
    /\ wpc = "L328"
    /\ qhist' = [qhist EXCEPT !.done = Append(@, wtask.id)]
    /\ wtask' = NoTask
    /\ wpc' = "L313"
    /\ UNCHANGED <<govars, mogrify_queue, map_file, temp_file, rvars,
                   connected>>

\* The state self.connection.is_connected() reports (lines 106, 323) changes
\* as the transport is lost and comes back.
transport_change ==
    /\ connected' = ~connected
    /\ UNCHANGED <<govars, qvars, rvars>>

\* ============================================================== reconnect
Reconnectors == 1..MaxSeq

Min(a, b) == IF a <= b THEN a ELSE b

\* A wait without the cap of line 111.
WaitTime_nocap(n) == base_wait * n

\* line 111
WaitTime(n) == Min(base_wait * n, MaxWait)

\* ------------------------------------------------------- on_disconnect

\* A handler without the test of line 91: every disconnect event goes on to
\* start a loop.
on_disconnect_nocheck ==
    /\ pc[Main] = "idle"
    /\ connected' = FALSE
    /\ Goto(Main, "L94")
    /\ UNCHANGED <<go_lock, go_active, go_timeout, go_numbers, go_timer,
                   fr, cur, accepted, terminal, qvars, rvars>>

\* lines 90-91: the transport is lost and the event loop calls the
\* handler, which reads the flag.
on_disconnect ==
    /\ pc[Main] = "idle"
    /\ connected' = FALSE
    /\ Goto(Main, IF reconnect_active THEN "L92" ELSE "L94")
    /\ UNCHANGED <<go_lock, go_active, go_timeout, go_numbers, go_timer,
                   fr, cur, accepted, terminal, qvars, rvars>>

\* lines 92-93: "Already reconnecting, skipping."
disconnect_L92 ==
    /\ pc[Main] = "L92"
    /\ Goto(Main, Return(Main))
    /\ UNCHANGED <<go_lock, go_active, go_timeout, go_numbers, go_timer,
                   fr, cur, accepted, terminal, qvars, rvars, connected>>

\* lines 94-95
disconnect_L94 ==
    /\ pc[Main] = "L94"
    /\ reconnect_active' = TRUE
    /\ Goto(Main, "L96")
    /\ UNCHANGED <<go_lock, go_active, go_timeout, go_numbers, go_timer,
                   fr, cur, accepted, terminal, qvars, rpc, attempt,
                   wait_time, rhist, connected>>

\* line 96: a new thread runs _reconnect_loop.
disconnect_L96 ==
    /\ pc[Main] = "L96"
    /\ rpc' = [rpc EXCEPT ![rhist.n + 1] = "L103"]
    /\ rhist' = [rhist EXCEPT !.n = @ + 1]
    /\ Goto(Main, Return(Main))
    /\ UNCHANGED <<go_lock, go_active, go_timeout, go_numbers, go_timer,
                   fr, cur, accepted, terminal, qvars, reconnect_active,
                   attempt, wait_time, connected>>

\* ----------------------------------------------------- _reconnect_loop

reconnect_L103(t) ==
    /\ rpc[t] = "L103"
    /\ attempt' = [attempt EXCEPT ![t] = 1]
    /\ rpc' = [rpc EXCEPT ![t] = "L106"]
    /\ UNCHANGED <<govars, qvars, reconnect_active, wait_time, rhist,
                   connected>>

\* lines 104-106
reconnect_L106(t) ==
    /\ rpc[t] = "L106"
    /\ rpc' = [rpc EXCEPT ![t] = IF connected THEN "L108" ELSE "L111"]
    /\ UNCHANGED <<govars, qvars, reconnect_active, attempt, wait_time,
                   rhist, connected>>

\* lines 107-109
reconnect_L108(t) ==
    /\ rpc[t] = "L108"
    /\ reconnect_active' = FALSE
    /\ rpc' = [rpc EXCEPT ![t] = "done"]
    /\ UNCHANGED <<govars, qvars, attempt, wait_time, rhist, connected>>

reconnect_L111(t) ==
    /\ rpc[t] = "L111"
    /\ wait_time' = [wait_time EXCEPT ![t] = WaitTime(attempt[t])]
    /\ rpc' = [rpc EXCEPT ![t] = "L116"]
    /\ UNCHANGED <<govars, qvars, reconnect_active, attempt, rhist,
                   connected>>

\* lines 112-120: connect() returns a live connection or raises.
reconnect_L116(t, ok) ==
    /\ rpc[t] = "L116"
    /\ IF ok
       THEN /\ connected' = TRUE
            /\ rpc' = [rpc EXCEPT ![t] = "L123"]
            /\ UNCHANGED rhist
       ELSE /\ rpc' = [rpc EXCEPT ![t] = "L129"]
            /\ rhist' = [rhist EXCEPT !.failed[t] = @ + 1]
            /\ UNCHANGED connected
    /\ UNCHANGED <<govars, qvars, reconnect_active, attempt, wait_time>>

\* lines 122-123: join() raises when the new connection is lost already.
reconnect_L123(t) ==
    /\ rpc[t] = "L123"
    /\ IF connected
       THEN /\ rpc' = [rpc EXCEPT ![t] = "L124"]
            /\ UNCHANGED rhist
       ELSE /\ rpc' = [rpc EXCEPT ![t] = "L129"]
            /\ rhist' = [rhist EXCEPT !.failed[t] = @ + 1]
    /\ UNCHANGED <<govars, qvars, reconnect_active, attempt, wait_time,
                   connected>>

\* lines 124-125
reconnect_L124(t) ==
    /\ rpc[t] = "L124"
    /\ reconnect_active' = FALSE
    /\ rpc' = [rpc EXCEPT ![t] = "done"]
    /\ UNCHANGED <<govars, qvars, attempt, wait_time, rhist, connected>>

\* A loop that gives up after a failed attempt instead of sleeping.
reconnect_L129_giveup(t) ==
    /\ rpc[t] = "L129"
    /\ rpc' = [rpc EXCEPT ![t] = "done"]
    /\ UNCHANGED <<govars, qvars, reconnect_active, attempt, wait_time,
                   rhist, connected>>

\* lines 127-129: time.sleep(wait_time)
reconnect_L129(t) ==
    /\ rpc[t] = "L129"
    /\ rhist' = [rhist EXCEPT !.waits[t] = Append(@, wait_time[t])]
    /\ rpc' = [rpc EXCEPT ![t] = "L130"]
    /\ UNCHANGED <<govars, qvars, reconnect_active, attempt, wait_time,
                   connected>>

reconnect_L130(t) ==
    /\ rpc[t] = "L130"
    /\ attempt' = [attempt EXCEPT ![t] = @ + 1]
    /\ rpc' = [rpc EXCEPT ![t] = "L106"]
    /\ UNCHANGED <<govars, qvars, reconnect_active, wait_time, rhist,
                   connected>>

\* The transport comes back by another path than the loop (what line 106
\* looks for).
external_connect ==
    /\ ~connected
    /\ connected' = TRUE
    /\ UNCHANGED <<govars, qvars, rvars>>

\* ---------------------------------------------------------------- Init
\* MonopolyBot.__init__, lines 55-84; the bot is connected when it starts
\* to handle events.
InitGo ==
    /\ go_lock = FALSE
    /\ go_active = None
    /\ go_timeout = DefaultTimeout
    /\ go_numbers = EmptyDict
    /\ go_timer = 0
    /\ pc = [th \in Threads |-> IF th = Main THEN "idle" ELSE "unborn"]
    /\ fr = [th \in Threads |-> NoFrame]
    /\ cur = 0
    /\ accepted = EmptyDict
    /\ terminal = [s \in Timers |-> 0]

InitQueue ==
    /\ mogrify_queue = <<>>
    /\ wpc = "L313"
    /\ wtask = NoTask
    /\ map_file = File(0, {})
    /\ temp_file = NoFile
    /\ qhist = [n |-> 0, copies |-> 0, taken |-> <<>>, done |-> <<>>,
                failed |-> {}, logged |-> {}, notified |-> <<>>]

InitReconnect ==
    /\ reconnect_active = FALSE
    /\ connected = TRUE
    /\ rpc = [t \in Reconnectors |-> "unborn"]
    /\ attempt = [t \in Reconnectors |-> 0]
    /\ wait_time = [t \in Reconnectors |-> 0]
    /\ rhist = [n |-> 0, failed |-> [t \in Reconnectors |-> 0],
                waits |-> [t \in Reconnectors |-> <<>>]]

Init == InitGo /\ InitQueue /\ InitReconnect

\* The rendezvous: the event loop handles !go, !stopgo and private
\* messages while the timer threads run.  Line 262 (cancel of a timer left
\* in go_timer) needs a third accepted !go: go_timer is None whenever the
\* first or the second one reaches line 261, so it is a step of
\* StartStopSpec only.
GoSteps ==
    \/ go_L253 \/ go_L256 \/ go_L258 \/ go_L259 \/ go_L261
    \/ go_L263 \/ go_L264
    \/ handle_stopgo \/ stopgo_L268 \/ stopgo_L271 \/ stopgo_L272
    \/ stopgo_L273 \/ stopgo_L275
    \/ \E i \in Timers : timer_fire(i) \/ timeout_L280(i) \/ timeout_L282(i)
    \/ \E th \in Threads :
         \/ reset_L298(th) \/ reset_L299(th) \/ reset_L300(th) \/ reset_L301(th)
         \/ reset_L302(th) \/ reset_L303(th) \/ reset_L304(th)

PrivmsgSteps ==
    \/ \E sender \in Senders, text \in Texts : on_privmsg(sender, text)
    \/ privmsg_L197 \/ privmsg_L198 \/ privmsg_L206 \/ privmsg_L208 \/ privmsg_L201
    \/ privmsg_L202 \/ privmsg_L203
    \/ complete_L291 \/ complete_L292

NextGo ==
    \/ \E c \in GoCommands :
         (go_lock \/ cur < MaxSessions) /\ handle_go_command(c[1], c[2])
    \/ GoSteps
    \/ PrivmsgSteps

Spec == Init /\ [][NextGo]_vars

\* The same without private messages, followed over one more !go.
NextStartStop ==
    \/ \E c \in GoCommands :
         (go_lock \/ cur < MaxStarts) /\ handle_go_command(c[1], c[2])
    \/ GoSteps
    \/ go_L262

StartStopSpec == Init /\ [][NextStartStop]_vars

\* The update queue: the event loop handles !freshmap and the update
\* commands while the worker thread runs.
NextQueue ==
    \/ \E copied \in BOOLEAN : qhist.n < MaxTasks /\ freshmap_L153(copied)
    \/ freshmap_L154 \/ freshmap_L155 \/ freshmap_L157
    \/ \E first_word \in FirstWords, player \in Players, number \in Numbers :
         qhist.n < MaxTasks /\ on_pubmsg_update(first_word, player, number)
    \/ process_L313 \/ process_L316
    \/ \E outcome \in {"drawn", "failed", "oserror"} : process_L318(outcome)
    \/ process_L323 \/ process_L324 \/ process_L326 \/ process_L328
    \/ transport_change

QueueSpec == Init /\ [][NextQueue]_vars

\* The reconnect loop: the event loop handles disconnect events while the
\* reconnect threads run.
reconnect_loop(t) ==
    \/ reconnect_L103(t) \/ reconnect_L106(t) \/ reconnect_L108(t)
    \/ reconnect_L111(t)
    \/ \E ok \in BOOLEAN :
         (ok \/ attempt[t] < MaxAttempt) /\ reconnect_L116(t, ok)
    \/ (connected \/ attempt[t] < MaxAttempt) /\ reconnect_L123(t)
    \/ reconnect_L124(t) \/ reconnect_L129(t) \/ reconnect_L130(t)

NextReconnect ==
    \/ (reconnect_active \/ rhist.n < MaxSeq) /\ on_disconnect
    \/ disconnect_L92 \/ disconnect_L94 \/ disconnect_L96
    \/ \E t \in Reconnectors : reconnect_loop(t)
    \/ external_connect

ReconnectSpec == Init /\ [][NextReconnect]_vars

\* The same with the reconnect threads scheduled: a thread that can take a
\* step takes one (time.sleep returns, connect() returns or raises).
ReconnectLiveSpec ==
    ReconnectSpec /\ \A t \in Reconnectors : WF_vars(reconnect_loop(t))

\* ====================================================== rendezvous claims
\* A session is live: the marker is set and its timer waits for the
\* deadline.
LiveSession == go_active # None /\ go_timer # 0 /\ pc[go_timer] = "armed"

\* The texts on_privmsg is to reject: not a number, or a number outside 0..7.
Invalid(text) == ~(IntParses(text) /\ InRange(IntOf(text)))

\* C1: every session emits at most one terminal notification (completed,
\* timed out, stopped manually), whatever the interleaving of the timer
\* thread with the handlers of the event loop.
C1_AtMostOneTerminalNotice == \A s \in Timers : terminal[s] <= 1

\* C2: a !go issued while a session is live is rejected: the handler never
\* wins the lock (and goes on to overwrite the session) while the marker of
\* a live session is set and its timer is armed.
C2_StartRejectedWhileLive == pc[Main] = "L256" => ~LiveSession

\* C3: the completion notification reports, in the order of
\* go_input_users, the last number accepted from each participant in this
\* session, never a defaulted 0 in its place.
C3_ResultReportsAccepted ==
    pc[Main] = "L292" =>
        \A k \in 1..Len(go_input_users) :
            go_input_users[k] \in DOMAIN accepted =>
                fr[Main].nums[k] = accepted[go_input_users[k]]

\* C4: a session whose collected numbers cover all of go_input_users is
\* never reported as timed out: no timer thread is about to send the
\* timeout notice of an active !go whose numbers are complete.
C4_CompleteNeverTimedOut ==
    \A i \in Timers :
        pc[i] = "L282" => ~(go_active # None /\ DOMAIN go_numbers = InputUserSet)

\* C5: a private message of an expected participant during a live session
\* whose text is not a number, or is a number outside 0..7, leaves
\* go_numbers, go_active, go_timer and go_lock as they are and goes on to
\* send the reply that states the range (line 206 or 208).
C5_InvalidGetsRangeReply ==
    [][(pc[Main] = "L198" /\ pc'[Main] # "L198" /\ Invalid(fr[Main].text))
        => /\ pc'[Main] \in {"L206", "L208"}
           /\ UNCHANGED <<go_numbers, go_active, go_timer, go_lock>>]_vars

\* ===================================================== update queue claims
\* C6: the worker takes the tasks in the order of the put() calls, one at a
\* time: the n-th task taken is the n-th task put, the tasks finished are a
\* prefix of the tasks taken, at most one task is in progress, and the
\* "!up" notices are sent in task order, each while its task is in hand.
C6_FifoOneAtATime ==
    /\ \A k \in 1..Len(qhist.taken) : qhist.taken[k] = k
    /\ Len(qhist.taken) - Len(qhist.done) \in {0, 1}
    /\ qhist.done = SubSeq(qhist.taken, 1, Len(qhist.done))
    /\ (wpc = "L313") = (Len(qhist.taken) = Len(qhist.done))
    /\ \A k \in 1..Len(qhist.notified) :
          /\ qhist.notified[k] \in {qhist.taken[j] : j \in 1..Len(qhist.taken)}
          /\ \A j \in 1..(k - 1) : qhist.notified[j] < qhist.notified[k]
          /\ \/ qhist.notified[k] = wtask.id
             \/ qhist.notified[k] \in {qhist.done[j] : j \in 1..Len(qhist.done)}

\* Three tasks were put: the first is finished, the second is in hand at
\* its last statement and the third is waiting.
C6_Witness ==
    /\ qhist.done = <<1>>
    /\ wpc = "L328"
    /\ wtask.id = 2
    /\ Len(mogrify_queue) = 1

\* C7: a task whose rendering or replacement invocation failed is logged by
\* the worker by the time the task is finished.
C7_FailureLogged ==
    \A k \in 1..Len(qhist.done) :
        qhist.done[k] \in qhist.failed => qhist.done[k] \in qhist.logged

\* C8: once the worker has consumed a replace task, map.webp is a copy of
\* cb2.webp at least as new as the one made for that task and shows no
\* circle of a draw task put on the queue before it.
C8_ReplaceLeavesNoOldMark ==
    (wpc = "L328" /\ wtask.coord = REPLACE_MAP) =>
        /\ map_file.gen >= wtask.gen
        /\ \A id \in map_file.marks : id > wtask.id

\* ======================================================== reconnect claims
\* The reconnect threads that have not returned.
RunningSet == {t \in Reconnectors : rpc[t] \notin {"unborn", "done"}}

\* C9: at most one reconnect loop runs at any time, and only while the flag
\* is set; at most one thread is inside connect(); a disconnect event seen
\* with the flag set goes to line 92 and changes nothing of the reconnect
\* state; one seen with the flag clear sets the flag and starts exactly one
\* loop.
C9_SingleSequence ==
    /\ [](/\ Cardinality(RunningSet) <= 1
          /\ (RunningSet # {} => reconnect_active)
          /\ Cardinality({t \in Reconnectors : rpc[t] = "L116"}) <= 1)
    /\ [][(pc[Main] = "idle" /\ pc'[Main] \in {"L92", "L94"})
            => /\ (pc'[Main] = "L92") = reconnect_active
               /\ UNCHANGED rvars]_vars
    /\ [][(pc[Main] = "L92" /\ pc'[Main] # "L92")
            => (pc'[Main] = "idle" /\ UNCHANGED rvars)]_vars
    /\ [][(pc[Main] = "L94" /\ pc'[Main] # "L94")
            => (reconnect_active' /\ RunningSet = {} /\ UNCHANGED rpc)]_vars
    /\ [][(pc[Main] = "L96" /\ pc'[Main] # "L96")
            => (reconnect_active /\ RunningSet = {}
                /\ Cardinality(RunningSet') = 1)]_vars

\* A disconnect event was seen while a reconnect loop was running, and was
\* skipped.
C9_Witness == pc[Main] = "L92" /\ RunningSet # {} /\ rhist.n = 2

\* C10: in every reconnect loop the attempt counter starts at 1 and counts
\* the failed attempts, and the k-th sleep lasts min(60*k, 300): 60, 120,
\* 180, 240, 300, 300, ..., whichever loop it is.
C10_BackoffSchedule ==
    \A t \in Reconnectors :
        /\ \A k \in 1..Len(rhist.waits[t]) :
              rhist.waits[t][k] = IF 60 * k <= 300 THEN 60 * k ELSE 300
        /\ rpc[t] \in {"L106", "L108", "L111", "L116", "L123", "L124"}
              => attempt[t] = Len(rhist.waits[t]) + 1
        /\ rpc[t] \in {"L129", "L130"}
              => /\ attempt[t] = rhist.failed[t]
                 /\ wait_time[t] = IF 60 * attempt[t] <= 300
                                   THEN 60 * attempt[t] ELSE 300

\* The first loop slept six times (the cap is reached) and ended; a second
\* loop has slept once.
C10_Witness ==
    /\ Len(rhist.waits[1]) >= 6
    /\ Len(rhist.waits[2]) = 1
\* C11: a reconnect loop returns only from line 109 (it saw the transport
\* live at line 106) or from line 125 (its own connect and join succeeded),
\* and the flag is false when it returns; after a failed attempt it sleeps,
\* counts and tests again, whatever the number of failed attempts; a loop
\* that has reached one of the two exits does return, with the flag false.
C11_NeverGivesUp ==
    /\ [][\A t \in Reconnectors :
            /\ (rpc[t] # "done" /\ rpc'[t] = "done")
                 => (rpc[t] \in {"L108", "L124"} /\ ~reconnect_active')
            /\ (rpc[t] # "L108" /\ rpc'[t] = "L108")
                 => (rpc[t] = "L106" /\ connected)
            /\ (rpc[t] # "L124" /\ rpc'[t] = "L124")
                 => (rpc[t] = "L123" /\ connected)
            /\ (rpc[t] # "L123" /\ rpc'[t] = "L123")
                 => (rpc[t] = "L116" /\ connected')
            /\ (rpc[t] = "L129" /\ rpc'[t] # "L129") => rpc'[t] = "L130"
            /\ (rpc[t] = "L130" /\ rpc'[t] # "L130")
                 => (rpc'[t] = "L106" /\ attempt'[t] = attempt[t] + 1)]_vars
    /\ \A t \in Reconnectors :
         (rpc[t] \in {"L108", "L124"}) ~> (rpc[t] = "done" /\ ~reconnect_active)

\* The first loop failed six times, then connected and returned; a later
\* disconnect event has started the second loop.
C11_Witness ==
    /\ rhist.failed[1] >= 6
    /\ rpc[1] = "done"
    /\ rpc[2] \notin {"unborn", "done"}
\* The positions of a timer thread whose function is running.
TimerRunning == {"L280", "L282", "L298", "L299", "L300", "L301",
                 "L302", "L303", "L304"}

\* C12: once the latest session has been ended by a stop, by its deadline
\* or by its completion (its notice is sent), and the handler and the timer
\* thread of that session have returned, go_active is None, go_numbers is
\* empty, go_timer is None, no timer is armed and the lock is free.
C12_TornDownAfterTerminal ==
    \A s \in Timers :
        (/\ cur = s
         /\ terminal[s] >= 1
         /\ pc[Main] = "idle"
         /\ pc[s] \notin TimerRunning)
        => /\ go_active = None
           /\ go_numbers = EmptyDict
           /\ go_timer = 0
           /\ ~go_lock
           /\ \A i \in Timers : pc[i] # "armed"
\* The expected participants without a value in d, in the order of
\* go_input_users.
Missing(d) == SelectSeq(go_input_users, LAMBDA u : u \notin DOMAIN d)

\* C13: when the deadline has fired on a live session, the timeout notice
\* that is about to be sent names the tag that session had when the deadline
\* fired and lists exactly the expected participants that have no value, in
\* the order of go_input_users.
C13_TimeoutListsMissing ==
    \A i \in Timers :
        (pc[i] = "L282" /\ fr[i].go_num # None)
        => /\ msg_L282(i).tag = fr[i].go_num
           /\ msg_L282(i).users = Missing(go_numbers)
\* C14: a stop request seen with no live session goes to line 268 and its
\* reply changes nothing of the rendezvous state and no timer; and once the
\* "stopped manually" notice of a session is sent (the event loop enters the
\* teardown from handle_stopgo), the timer of that session is neither armed
\* nor on its way to send the timeout notice.
C14_StopDisarms ==
    /\ [][(pc[Main] = "idle" /\ pc'[Main] \in {"L268", "L271"})
            => (pc'[Main] = "L268") = (go_active = None)]_vars
    /\ [][(pc[Main] = "L268" /\ pc'[Main] # "L268")
            => (/\ pc'[Main] = "idle"
                /\ \A i \in Timers : pc'[i] = "armed" <=> pc[i] = "armed"
                /\ UNCHANGED <<go_lock, go_active, go_timeout, go_numbers,
                               go_timer>>)]_vars
    /\ [](\A s \in Timers :
            (pc[Main] = "L298" /\ fr[Main].sess = s /\ fr[Main].nums = <<>>)
            => pc[s] \notin {"armed", "L280", "L282"})
\* C15: every request that is not accepted is answered: a handler of !go,
\* !stopgo or of a private message goes on to a statement that accepts the
\* request (lines 256, 271, 201) or to one that sends a reply (lines 253,
\* 268, 206, 208); it never returns without a message and never ends by an
\* exception.
C15_NoSilentDrop ==
    /\ [][(pc[Main] = "idle" /\ pc'[Main] # "idle")
            => pc'[Main] \in {"L253", "L256", "L268", "L271", "L198"}]_vars
    /\ [][(pc[Main] = "L198" /\ pc'[Main] # "L198")
            => pc'[Main] \in {"L201", "L206", "L208"}]_vars
\* The number of "!up" notices sent for the task id.
Notices(id) ==
    Cardinality({k \in 1..Len(qhist.notified) : qhist.notified[k] = id})

\* C16: when the worker has finished with a task (line 328), "!up" has been
\* sent once for it if it is a draw task whose mogrify succeeded, and not
\* at all otherwise, whatever is_connected() reported.
C16_NotifiedOncePerDraw ==
    wpc = "L328" =>
        Notices(wtask.id) =
            IF wtask.coord # REPLACE_MAP /\ wtask.id \notin qhist.failed
            THEN 1 ELSE 0
\* C17: the keys of go_numbers are expected participants and its values are
\* integers from 0 to 7; and whenever go_active is None while no handler
\* and no timer function is running, go_numbers is empty.
C17_CollectedWellFormed ==
    /\ DOMAIN go_numbers \subseteq InputUserSet
    /\ \A u \in DOMAIN go_numbers : go_numbers[u] \in 0..MaxNumber
    /\ (/\ go_active = None
        /\ pc[Main] = "idle"
        /\ \A i \in Timers : pc[i] \notin TimerRunning)
       => go_numbers = EmptyDict
\* C18: a step of the timer thread of an earlier session (its _go_timeout or
\* the teardown it calls), taken after a later session has been started,
\* changes neither go_active, go_numbers, go_timer nor the lock, and cancels
\* no timer.
C18_StaleTimerHarmless ==
    [][\A i \in Timers :
          (i < cur /\ pc[i] \in TimerRunning /\ pc'[i] # pc[i])
          => /\ UNCHANGED <<go_active, go_numbers, go_timer, go_lock>>
             /\ \A j \in Timers : pc[j] = "armed" => pc'[j] = "armed"]_vars
\* C19: the teardown never raises: line 301 is never executed with go_timer
\* None and line 304 never with the lock free, in the event loop or in a
\* timer thread.
C19_TeardownNeverRaises ==
    [][\A th \in Threads :
          pc[th] \in {"L301", "L304"} => pc'[th] \notin {"crashed", "raised"}]_vars
\* C20: whenever go_active names a session and the event loop is between
\* two handlers, a timer is armed or the function of a timer is running, so
\* that the session ends without another message.
C20_LiveSessionHasTimer ==
    (go_active # None /\ pc[Main] = "idle")
    => \E i \in Timers : pc[i] = "armed" \/ pc[i] \in TimerRunning

====
